---- MODULE Spec2Model ----
(***************************************************************************)
(* gopull: the copy orchestration of the download / pull / push commands   *)
(* (cmd/copy.go execCopy), the image reference parser (pkgs/image) and the  *)
(* destination tag resolver (buildDestTag and its helpers).                 *)
(*                                                                         *)
(* Strings are sequences of tokens: a token is a fixed run of characters    *)
(* ("redis", ":", "/", "@sha256:", a 64-digit hex run, ...).  Concatenation *)
(* is \o, strings.Contains / strings.Split look for a separator token.      *)
(***************************************************************************)
EXTENDS Integers, Sequences, FiniteSets, TLC

\* ------------------------------------------------------------------ bounds
\* largest --retry-times value explored
MaxRetryTimes == 2

\* ------------------------------------------------------------- strings
HEX64 == "c35af3bbcef51a62c8bae5a9a563c6f1b60d7ebaea4cb5a3ccbcc157580ae098"
HEX4 == "c35a"
DigestMarker == "@sha256:"
DigestAlgo == "sha256:"

\* lower-case words, valid as path components and as tags
LowerWords == {"redis", "team", "app", "custom", "library", "latest", "v1", "v2", "out", "tar"}
\* words holding a '.', which make a leading component a registry domain
DomainWords == {"docker.io", "myregistry.example.com"}
\* a word with an upper-case letter: valid as a tag, not as a repository name
UpperWords == {"Redis"}

\* number of characters of a token
TokLen(t) ==
    CASE t = HEX64 -> 64
      [] t = HEX4 -> 4
      [] t = DigestMarker -> 8
      [] t = DigestAlgo -> 7
      [] t = "myregistry.example.com" -> 22
      [] t = "docker.io" -> 9
      [] t \in {"redis", "Redis"} -> 5
      [] t \in {"custom", "latest"} -> 6
      [] t = "library" -> 7
      [] t = "team" -> 4
      [] t \in {"app", "out", "tar"} -> 3
      [] t \in {"v1", "v2"} -> 2
      [] t = ".tar" -> 4
      [] OTHER -> 1

RECURSIVE StrLen(_)
\* len(s) in characters
StrLen(s) == IF s = <<>> THEN 0 ELSE TokLen(Head(s)) + StrLen(Tail(s))

\* strings.Contains(s, sep) for a separator token
Contains(s, sep) == \E i \in 1..Len(s) : s[i] = sep

\* strings.Contains(s, ":"): the tokens that hold a colon
ContainsColon(s) == \E i \in 1..Len(s) : s[i] \in {":", DigestMarker, DigestAlgo}

FirstIndex(s, sep) == CHOOSE i \in 1..Len(s) : s[i] = sep /\ \A j \in 1..(i-1) : s[j] # sep

RECURSIVE SplitStr(_, _)
\* strings.Split(s, sep)
SplitStr(s, sep) ==
    IF ~Contains(s, sep) THEN <<s>>
    ELSE LET i == FirstIndex(s, sep)
         IN <<SubSeq(s, 1, i-1)>> \o SplitStr(SubSeq(s, i+1, Len(s)), sep)

RECURSIVE JoinStr(_, _)
\* strings.Join(parts, sep)
JoinStr(parts, sep) ==
    IF parts = <<>> THEN <<>>
    ELSE IF Len(parts) = 1 THEN parts[1]
    ELSE parts[1] \o <<sep>> \o JoinStr(Tail(parts), sep)

\* ------------------------------------------------------------- errors
\* An error value is its Unwrap chain, outermost layer first; a layer holds
\* its own message and the texts formatted into it with %v.  nil is NoErr.
NoErr == <<>>
\* errors.New(msg)
NewErr(msg) == << [msg |-> msg, notes |-> <<>>] >>

RECURSIVE ErrText(_)
\* err.Error(), as the list of the messages it is built from
ErrText(err) ==
    IF err = <<>> THEN <<>>
    ELSE <<Head(err).msg>> \o Head(err).notes \o ErrText(Tail(err))

\* fmt.Errorf("msg: %v", inner): the inner error is formatted, not wrapped
ErrorfV(msg, inner) == << [msg |-> msg, notes |-> ErrText(inner)] >>
\* errors.Unwrap(err)
Unwrap(err) == IF err = <<>> THEN <<>> ELSE Tail(err)
\* errors.Is(err, target) for a target that is itself an error of the model
ErrorsIs(err, target) ==
    /\ target # NoErr
    /\ \E i \in 1..Len(err) : SubSeq(err, i, Len(err)) = target

UsageMsg == "image is required"
\* errorShouldDisplayUsage{errors.New("image is required")}
UsageError == << [msg |-> "errorShouldDisplayUsage", notes |-> <<UsageMsg>>] >>
\* errors.As(err, &shouldDisplayUsage)
IsUsageError(err) == \E i \in 1..Len(err) : err[i].msg = "errorShouldDisplayUsage"

TeardownMsg == "tearing down policy context"
\* the error policyContext.Destroy() returns when it fails
DestroyErr == NewErr("policy context destroy failed")

\* a noteCloseFailure that lets the close error replace the primary error
NoteCloseFailureDropsPrimary(err, description, closeErr) ==
    << [msg |-> description, notes |-> <<>>] >> \o closeErr

\* noteCloseFailure: %w of closeErr when there is no primary error,
\* else %w of the primary error with closeErr appended as text (%v)
noteCloseFailure(err, description, closeErr) ==
    IF err = NoErr
    THEN << [msg |-> description, notes |-> <<>>] >> \o closeErr
    ELSE << [msg |-> "%w (%s: %v)", notes |-> <<description>> \o ErrText(closeErr)] >> \o err

\* ------------------------------------------------- reference grammar
\* Result of reference.ParseNormalizedNamed on a token string: the grammar
\* is  [domain "/"] component ("/" component)* [":" tag] ["@sha256:" hex64].
Components(name) == SplitStr(name, "/")
HasDot(comp) == \E i \in 1..Len(comp) : comp[i] \in DomainWords
ValidComponent(comp) ==
    /\ comp # <<>>
    /\ \A i \in 1..Len(comp) : comp[i] \in LowerWords \cup DomainWords

\* the domain, path, tag and digest of a reference once it is cut into its
\* digest parts `dparts`, its tag and the "/" components of its name
NamedReference(dparts, hasTag, tagTok, comps) ==
    LET hasDigest == Len(dparts) > 1
        digestOK == ~hasDigest \/ (Len(dparts) = 2 /\ dparts[2] = <<HEX64>>)
        tagOK == ~hasTag \/ tagTok \in LowerWords \cup UpperWords
        hasDomain == Len(comps) > 1 /\ HasDot(comps[1])
        ok == /\ digestOK
              /\ tagOK
              /\ \A i \in 1..Len(comps) : ValidComponent(comps[i])
    IN IF ~ok
       THEN [ok |-> FALSE, domain |-> <<>>, path |-> <<>>, tag |-> <<>>, digest |-> <<>>]
       ELSE [ok |-> TRUE,
             domain |-> IF hasDomain THEN comps[1] ELSE <<"docker.io">>,
             path |-> IF hasDomain THEN JoinStr(Tail(comps), "/")
                      ELSE IF Len(comps) = 1 THEN <<"library", "/">> \o comps[1]
                      ELSE JoinStr(comps, "/"),
             tag |-> IF hasTag THEN <<tagTok>> ELSE <<>>,
             digest |-> IF hasDigest THEN <<DigestAlgo>> \o dparts[2] ELSE <<>>]

\* the part of a reference before its digest: name [":" tag]
NamedTagged(dparts, rest) ==
    IF Len(rest) >= 2 /\ rest[Len(rest) - 1] = ":"
    THEN NamedReference(dparts, TRUE, rest[Len(rest)],
                        Components(SubSeq(rest, 1, Len(rest) - 2)))
    ELSE NamedReference(dparts, FALSE, "", Components(rest))

NamedDigested(dparts) == NamedTagged(dparts, dparts[1])

\* reference.ParseNormalizedNamed
ParseNormalizedNamed(s) == NamedDigested(SplitStr(s, DigestMarker))

\* ------------------------------------------------- pkgs/image/image.go
EmptyImageStruct == [Registry |-> <<>>, Repository |-> <<>>, Name |-> <<>>,
                     Tag |-> <<>>, Digest |-> <<>>]

InvalidDigestFormat == NewErr("invalid digest format in image string")

\* a split that returns the bare suffix as the digest
SplitDigestBareSuffix(image) ==
    IF Contains(image, DigestMarker)
    THEN LET parts == SplitStr(image, DigestMarker)
         IN IF Len(parts) # 2
            THEN [image |-> <<>>, digest |-> <<>>, err |-> InvalidDigestFormat]
            ELSE [image |-> parts[1], digest |-> parts[2], err |-> NoErr]
    ELSE [image |-> image, digest |-> <<>>, err |-> NoErr]

\* a split at the first marker only, which lets a second marker through
SplitDigestFirstMarker(image) ==
    IF Contains(image, DigestMarker)
    THEN LET i == FirstIndex(image, DigestMarker)
         IN [image |-> SubSeq(image, 1, i - 1),
             digest |-> <<DigestAlgo>> \o SubSeq(image, i + 1, Len(image)),
             err |-> NoErr]
    ELSE [image |-> image, digest |-> <<>>, err |-> NoErr]

\* splitDigest: (image, digest, err)
splitDigest(image) ==
    IF Contains(image, DigestMarker)
    THEN LET parts == SplitStr(image, DigestMarker)
         IN IF Len(parts) # 2
            THEN [image |-> <<>>, digest |-> <<>>, err |-> InvalidDigestFormat]
            ELSE [image |-> parts[1], digest |-> <<DigestAlgo>> \o parts[2], err |-> NoErr]
    ELSE [image |-> image, digest |-> <<>>, err |-> NoErr]

\* parseImageName: the last "/" segment of the path
parseImageName(parsed) ==
    LET pathParts == SplitStr(parsed.path, "/") IN pathParts[Len(pathParts)]

ParseTagAlwaysEmpty(parsed) == <<>>
\* parseTag: the tag when the reference is tagged, else ""
parseTag(parsed) == parsed.tag

\* image.go:28-39: the fields of the normalized reference, and the digest
ImageStructFrom(digest, parsed) ==
    IF ~parsed.ok
    THEN [info |-> EmptyImageStruct, err |-> NewErr("failed to parse image")]
    ELSE [info |-> [Registry |-> parsed.domain,
                    Repository |-> parsed.path,
                    Name |-> parseImageName(parsed),
                    Tag |-> parseTag(parsed),
                    Digest |-> digest],
          err |-> NoErr]

\* image.go:23-28: after splitDigest
ImageStructAfterSplit(sd) ==
    IF sd.err # NoErr THEN [info |-> EmptyImageStruct, err |-> sd.err]
    ELSE ImageStructFrom(sd.digest, ParseNormalizedNamed(sd.image))

\* ParseImageStr: (ImageStruct, err)
ParseImageStr(image) == ImageStructAfterSplit(splitDigest(image))

\* ------------------------------------------------- destination tag
\* an archive name that leaves the tag out
GetDefaultImageTarNameNoTag(data) == data.Name \o <<".tar">>

getDefaultImageTarName(data) ==
    (IF data.Tag # <<>> THEN data.Name \o <<".">> \o data.Tag ELSE data.Name) \o <<".tar">>

\* a resolver that names the image by its whole repository path
GetDestTagUsesRepository(data) ==
    data.Repository \o <<":">> \o (IF data.Tag # <<>> THEN data.Tag ELSE <<"latest">>)

getDestTagFormImageStruct(data) ==
    LET tag == IF data.Tag # <<>> THEN data.Tag ELSE <<"latest">>
    IN IF data.Registry = <<"docker.io">>
       THEN data.Name \o <<":">> \o tag
       ELSE data.Registry \o data.Repository \o <<":">> \o tag

getDestTagFromString(s) == IF ContainsColon(s) THEN s ELSE s \o <<":", "latest">>

\* length of the digest prefix put in the message: parsedImage.Digest[:19]
DigestPrefixLen == 19
DigestRequiresTag == NewErr("digest requires an explicit tag (-t / --tag)")

\* a resolver that forgets the digest check
BuildDestTagNoDigestCheck(parsedImage, addTag) ==
    IF addTag # <<>>
    THEN [kind |-> "ok", val |-> getDestTagFromString(addTag), err |-> NoErr]
    ELSE [kind |-> "ok", val |-> getDestTagFormImageStruct(parsedImage), err |-> NoErr]

\* a resolver that looks at the digest before the override
BuildDestTagDigestFirst(parsedImage, addTag) ==
    IF parsedImage.Digest # <<>>
    THEN [kind |-> "err", val |-> <<>>, err |-> DigestRequiresTag]
    ELSE IF addTag # <<>>
    THEN [kind |-> "ok", val |-> getDestTagFromString(addTag), err |-> NoErr]
    ELSE [kind |-> "ok", val |-> getDestTagFormImageStruct(parsedImage), err |-> NoErr]

\* buildDestTag: kind is "ok", "err", or "panic" (the slice Digest[:19] of a
\* digest shorter than 19 characters is a run-time panic)
buildDestTag(parsedImage, addTag) ==
    IF addTag # <<>>
    THEN [kind |-> "ok", val |-> getDestTagFromString(addTag), err |-> NoErr]
    ELSE IF parsedImage.Digest = <<>>
    THEN [kind |-> "ok", val |-> getDestTagFormImageStruct(parsedImage), err |-> NoErr]
    ELSE IF StrLen(parsedImage.Digest) < DigestPrefixLen
    THEN [kind |-> "panic", val |-> <<>>, err |-> NoErr]
    ELSE [kind |-> "err", val |-> <<>>, err |-> DigestRequiresTag]

\* ------------------------------------------------- option values
\* commonFlag.OptionalString / OptionalBool: present only when the flag was given
Absent == [present |-> FALSE, value |-> <<>>]
Given(v) == [present |-> TRUE, value |-> v]
AbsentBool == [present |-> FALSE, value |-> FALSE]
GivenBool(b) == [present |-> TRUE, value |-> b]

\* a parser that accepts every value
ParseCredsNoCheck(creds) ==
    LET cut == IF Contains(creds, ":") THEN FirstIndex(creds, ":") ELSE Len(creds) + 1
    IN [username |-> SubSeq(creds, 1, cut - 1),
        password |-> SubSeq(creds, cut + 1, Len(creds)), err |-> NoErr]

\* parseCreds: strings.Cut(creds, ":")
parseCreds(creds) ==
    IF creds = <<>> THEN [username |-> <<>>, password |-> <<>>,
                          err |-> NewErr("credentials can't be empty")]
    ELSE LET cut == IF Contains(creds, ":") THEN FirstIndex(creds, ":") ELSE Len(creds) + 1
             username == SubSeq(creds, 1, cut - 1)
             password == SubSeq(creds, cut + 1, Len(creds))
         IN IF username = <<>>
            THEN [username |-> <<>>, password |-> <<>>,
                  err |-> NewErr("username can't be empty")]
            ELSE [username |-> username, password |-> password, err |-> NoErr]

NoAuth == [set |-> FALSE, Username |-> <<>>, Password |-> <<>>]
Auth(u, p) == [set |-> TRUE, Username |-> u, Password |-> p]

\* a nil *types.SystemContext
NilSystemContext == [nil |-> TRUE]

\* a global context that leaves the global --tls-verify out
GlobalContextIgnoresTLS(global) ==
    [DockerInsecureSkipTLSVerify |-> AbsentBool,
     DockerDaemonInsecureSkipTLSVerify |-> FALSE,
     DockerAuthConfig |-> [set |-> FALSE, Username |-> <<>>, Password |-> <<>>],
     DockerArchiveAdditionalTags |-> <<>>]

\* globalOptions.newSystemContext: the deprecated global --tls-verify
globalNewSystemContext(global) ==
    [DockerInsecureSkipTLSVerify |->
         IF global.tlsVerify.present THEN GivenBool(~global.tlsVerify.value) ELSE AbsentBool,
     DockerDaemonInsecureSkipTLSVerify |-> FALSE,
     DockerAuthConfig |-> NoAuth,
     DockerArchiveAdditionalTags |-> <<>>]

\* imageOptions.newSystemContext: (ctx, err)
newSystemContext(o, global, deprecatedTLSVerify) ==
    LET c0 == globalNewSystemContext(global)
        c1 == IF deprecatedTLSVerify.present
              THEN [c0 EXCEPT !.DockerInsecureSkipTLSVerify = GivenBool(~deprecatedTLSVerify.value)]
              ELSE c0
        c2 == IF o.tlsVerify.present
              THEN [c1 EXCEPT !.DockerDaemonInsecureSkipTLSVerify = ~o.tlsVerify.value,
                              !.DockerInsecureSkipTLSVerify = GivenBool(~o.tlsVerify.value)]
              ELSE c1
        creds == parseCreds(o.credsOption.value)
        c3 == IF o.credsOption.present
              THEN [c2 EXCEPT !.DockerAuthConfig = Auth(creds.username, creds.password)]
              ELSE IF o.userName.present
              THEN [c2 EXCEPT !.DockerAuthConfig = Auth(o.userName.value, o.password.value)]
              ELSE c2
        c4 == IF o.noCreds THEN [c3 EXCEPT !.DockerAuthConfig = Auth(<<>>, <<>>)] ELSE c3
        fail(msg) == [ok |-> FALSE, ctx |-> NilSystemContext, err |-> NewErr(msg)]
    IN IF o.credsOption.present /\ o.noCreds
       THEN fail("creds and no-creds cannot be specified at the same time")
       ELSE IF o.userName.present /\ o.noCreds
       THEN fail("username and no-creds cannot be specified at the same time")
       ELSE IF o.credsOption.present /\ o.userName.present
       THEN fail("creds and username cannot be specified at the same time")
       ELSE IF o.userName.present # o.password.present
       THEN (IF o.userName.present
             THEN fail("password must be specified when username is specified")
             ELSE fail("username must be specified when password is specified"))
       ELSE IF o.credsOption.present /\ creds.err # NoErr
       THEN [ok |-> FALSE, ctx |-> NilSystemContext, err |-> creds.err]
       ELSE [ok |-> TRUE, ctx |-> c4, err |-> NoErr]

\* ------------------------------------------------- transports
TaggedAndDigested(p) == p.tag # <<>> /\ p.digest # <<>>
DockerReferenceOK(p) == p.ok /\ ~TaggedAndDigested(p)
\* alltransports.ParseImageName("docker://" + name): a normalized reference
\* that does not carry a tag and a digest at once
DockerTransportOK(name) == DockerReferenceOK(ParseNormalizedNamed(name))

DaemonReferenceOK(p) == p.ok /\ ((p.tag # <<>>) # (p.digest # <<>>))
\* alltransports.ParseImageName("docker-daemon:" + name): an image id, or a
\* normalized reference with a tag or a digest, not both
DaemonTransportOK(name) ==
    \/ name = <<DigestAlgo, HEX64>>
    \/ DaemonReferenceOK(ParseNormalizedNamed(name))

ArchiveReferenceOK(p) == p.ok /\ p.digest = <<>>
\* alltransports.ParseImageName("docker-archive:" + name): path[:reference]
ArchiveTransportOK(name) ==
    IF ~Contains(name, ":") THEN name # <<>>
    ELSE /\ FirstIndex(name, ":") > 1
         /\ ArchiveReferenceOK(
                ParseNormalizedNamed(SubSeq(name, FirstIndex(name, ":") + 1, Len(name))))

\* addTag: the tag must parse to a tagged reference; it is appended to the
\* context's DockerArchiveAdditionalTags
TaggedReferenceOK(p) == p.ok /\ p.tag # <<>>
addTagOK(tag) == TaggedReferenceOK(ParseNormalizedNamed(tag))
addTag(sysCtx, tag) ==
    [sysCtx EXCEPT !.DockerArchiveAdditionalTags = Append(@, tag)]

\* ------------------------------------------------- builders
BuilderErr(e) == [kind |-> "err", ref |-> <<>>, ctx |-> NilSystemContext, err |-> e]
BuilderOk(transport, name, c) == [kind |-> "ok", ref |-> <<transport>> \o name, ctx |-> c, err |-> NoErr]
BuilderPanic == [BuilderErr(NoErr) EXCEPT !.kind = "panic"]
ReferenceErr == NewErr("invalid reference format")

\* the builder's last step: the system context, then the reference
WithSystemContext(sys, transport, name) ==
    IF ~sys.ok THEN BuilderErr(sys.err) ELSE BuilderOk(transport, name, sys.ctx)

\* pullOptions.buildSrcRef (also the source builder of download)
pullBuildSrcRef(o, imageName) ==
    IF ~DockerTransportOK(imageName)
    THEN BuilderErr(ErrorfV("invalid source name", ReferenceErr))
    ELSE WithSystemContext(newSystemContext(o.srcImage, o.global, o.deprecatedTLSVerify),
                           "docker://", imageName)

\* pushOptions.buildSrcRef
pushBuildSrcRef(o, imageName) ==
    IF ~DaemonTransportOK(imageName)
    THEN BuilderErr(ErrorfV("invalid source name", ReferenceErr))
    ELSE WithSystemContext(newSystemContext(o.srcImage, o.global, o.deprecatedTLSVerify),
                           "docker-daemon:", imageName)

\* copy.go:386-401: after buildDestTag
pullDestWithTag(o, destTag) ==
    IF destTag.kind = "panic" THEN BuilderPanic
    ELSE IF destTag.kind = "err" THEN BuilderErr(destTag.err)
    ELSE IF ~DaemonTransportOK(destTag.val)
    THEN BuilderErr(ErrorfV("invalid destination name", ReferenceErr))
    ELSE WithSystemContext(newSystemContext(o.destImage, o.global, o.deprecatedTLSVerify),
                           "docker-daemon:", destTag.val)

\* copy.go:380-386: after ParseImageStr
pullDestWithParsed(o, parsed) ==
    IF parsed.err # NoErr THEN BuilderErr(ErrorfV("parse image faild name", parsed.err))
    ELSE pullDestWithTag(o, buildDestTag(parsed.info, o.addTag))

\* pullOptions.buildDestRef
pullBuildDestRef(o, imageName) == pullDestWithParsed(o, ParseImageStr(imageName))

\* part_000:97-105: after buildDestTag, addTag on the destination context
downloadDestWithTag(dest, sys, destTag) ==
    IF destTag.kind = "panic" THEN BuilderPanic
    ELSE IF destTag.kind = "err" THEN BuilderErr(destTag.err)
    ELSE IF ~addTagOK(destTag.val)
    THEN BuilderErr(ErrorfV("add destination tag failed", ReferenceErr))
    ELSE BuilderOk("docker-archive:", dest, addTag(sys.ctx, destTag.val))

\* part_000:90-97: after the destination name parsed
downloadDestWithContext(o, info, dest, sys) ==
    IF ~sys.ok THEN BuilderErr(sys.err)
    ELSE downloadDestWithTag(dest, sys, buildDestTag(info, o.addTag))

\* part_000:78-90: the archive name, -o or the default
downloadDestWithName(o, info, dest) ==
    IF ~ArchiveTransportOK(dest)
    THEN BuilderErr(ErrorfV("invalid destination name", ReferenceErr))
    ELSE downloadDestWithContext(o, info, dest,
             newSystemContext(o.destImage, o.global, o.deprecatedTLSVerify))

\* part_000:73-83: after ParseImageStr
downloadDestWithParsed(o, parsed) ==
    IF parsed.err # NoErr THEN BuilderErr(ErrorfV("parse image faild name", parsed.err))
    ELSE downloadDestWithName(o, parsed.info,
             IF o.outFile # <<>> THEN o.outFile ELSE getDefaultImageTarName(parsed.info))

\* downloadOptions.buildDestRef
downloadBuildDestRef(o, imageName) == downloadDestWithParsed(o, ParseImageStr(imageName))

\* const.go:120-129: after the destination name is chosen
pushDestWithName(o, dest) ==
    IF ~DockerTransportOK(dest)
    THEN BuilderErr(ErrorfV("invalid destination name", ReferenceErr))
    ELSE WithSystemContext(newSystemContext(o.destImage, o.global, o.deprecatedTLSVerify),
                           "docker://", dest)

\* a destination that gives an override without ':' the tag latest
PushDestDefaultsLatest(o, imageName) ==
    pushDestWithName(o, IF o.addTag # <<>> THEN getDestTagFromString(o.addTag) ELSE imageName)

\* pushOptions.buildDestRef
pushBuildDestRef(o, imageName) ==
    pushDestWithName(o, IF o.addTag # <<>> THEN o.addTag ELSE imageName)

BuilderFailureIgnored(r) == FALSE
\* `if err != nil { return err }` after a builder call (a panic unwinds too)
BuilderFailed(r) == r.kind # "ok"

\* the source builder s and the destination builder d each run() passes to execCopy
SourceBuilder(o, imageName) ==
    IF o.cmd = "push" THEN pushBuildSrcRef(o, imageName) ELSE pullBuildSrcRef(o, imageName)
DestBuilder(o, imageName) ==
    CASE o.cmd = "download" -> downloadBuildDestRef(o, imageName)
      [] o.cmd = "pull" -> pullBuildDestRef(o, imageName)
      [] OTHER -> pushBuildDestRef(o, imageName)

\* ------------------------------------------------- manifest format
MediaTypeImageManifest == "application/vnd.oci.image.manifest.v1+json"
DockerV2Schema1SignedMediaType == "application/vnd.docker.distribution.manifest.v1+prettyjws"
DockerV2Schema2MediaType == "application/vnd.docker.distribution.manifest.v2+json"

UnknownFormat == NewErr("unknown format")

ParseManifestFormatAcceptsAll(manifestFormat) ==
    [val |-> MediaTypeImageManifest, err |-> NoErr]

\* parseManifestFormat: (MIME type, err)
parseManifestFormat(manifestFormat) ==
    CASE manifestFormat = "oci" -> [val |-> MediaTypeImageManifest, err |-> NoErr]
      [] manifestFormat = "v2s1" -> [val |-> DockerV2Schema1SignedMediaType, err |-> NoErr]
      [] manifestFormat = "v2s2" -> [val |-> DockerV2Schema2MediaType, err |-> NoErr]
      [] OTHER -> [val |-> "", err |-> UnknownFormat]

\* ------------------------------------------------- command line
\* image arguments explored
Images ==
    { <<"redis">>,
      <<"redis", ":", "v1">>,
      <<"myregistry.example.com", "/", "team", "/", "app", ":", "v1">>,
      <<"redis", DigestMarker, HEX64>>,
      <<"redis", DigestMarker>>,
      <<"redis", DigestMarker, HEX64, DigestMarker, HEX64>>,
      <<"Redis">> }
\* positional argument lists: none, one image, two images
ArgLists == {<<>>, << <<"redis">>, <<"redis">> >>} \cup { <<i>> : i \in Images }
\* -t values
TagOverrides == { <<>>, <<"custom", ":", "v2">>, <<"Redis">> }
\* -o values (download)
OutFiles == { <<>>, <<"out", ".tar">>, <<"out", ":", "Redis">> }
\* -f values
NoFormat == [present |-> FALSE, value |-> ""]
Formats == { NoFormat } \cup { [present |-> TRUE, value |-> f] : f \in {"oci", "v2s1", "v2s2", "v3"} }
\* --command-timeout values, in abstract time units
Timeouts == {-1, 0, 1}
\* per-image flag sets: none, --creds user:pass, --creds with --no-creds,
\* --username without --password
PlainImage == [credsOption |-> Absent, userName |-> Absent, password |-> Absent,
               noCreds |-> FALSE, tlsVerify |-> AbsentBool]
CredsImage == [PlainImage EXCEPT !.credsOption = Given(<<"user", ":", "pass">>)]
CredsNoCredsImage == [CredsImage EXCEPT !.noCreds = TRUE]
UserOnlyImage == [PlainImage EXCEPT !.userName = Given(<<"user">>)]
SrcImageOptions == { PlainImage, UserOnlyImage }
DestImageOptions == { PlainImage, CredsImage, CredsNoCredsImage }

Commands == {"download", "pull", "push"}

Options(cmd, args, tag, outFile, format, quiet, retryTimes, commandTimeout, srcImage, destImage) ==
    [cmd |-> cmd, args |-> args, addTag |-> tag, outFile |-> outFile,
     format |-> format, quiet |-> quiet, retryTimes |-> retryTimes,
     commandTimeout |-> commandTimeout, srcImage |-> srcImage, destImage |-> destImage,
     global |-> [tlsVerify |-> AbsentBool], deprecatedTLSVerify |-> AbsentBool]

\* ------------------------------------------------- state
VARIABLES
    opts,          \* the parsed command line (never changes)
    pc,            \* position in commandAction / execCopy
    policy,        \* policy context: "none", "live", "destroyed"
    acquisitions,  \* number of successful getPolicyContext() calls
    destroyCalls,  \* number of policyContext.Destroy() calls
    srcCalls,      \* number of calls of the source builder
    destCalls,     \* number of calls of the destination builder
    srcRes,        \* result of the source builder
    destRes,       \* result of the destination builder
    manifestType,  \* ForceManifestMIMEType
    stdout,        \* the report writer: "stdout" or "nil"
    ctx,           \* the command context: made, deadline, done, cancelled
    attempts,      \* the copy.Image calls so far, in order
    retErr,        \* execCopy's named result
    primary,       \* the value of the return statement, before the deferred calls
    panicking,     \* a run-time panic is unwinding the stack
    destroyFailed, \* Destroy returned an error
    expiredAt,     \* where execCopy was when the deadline expired, or "none"
    helpShown,     \* commandAction called c.Help()
    result,        \* what commandAction returns to cobra
    exitStatus,    \* the exit status of the process, or NotExited
    imageStr,      \* image.ParseImageStr, called on its own: the argument
    addTagStr,     \* buildDestTag, called on its own: the override
    parseRes,      \* what ParseImageStr returned, or NotCalled
    tagRes,        \* what buildDestTag returned, or NotCalled
    flags,         \* newSystemContext, called on its own: the option structs
    heap,          \* the SystemContext objects allocated so far, by address
    srcSys,        \* what the source's newSystemContext returned, or NotCalled
    destSys,       \* what the destination's newSystemContext returned, or NotCalled
    tagged         \* addTag on the destination context: "no", "ok", "rejected"

\* the state of a command run, and the state of the library calls on their own
execVars == <<opts, pc, policy, acquisitions, destroyCalls, srcCalls, destCalls, srcRes, destRes,
              manifestType, stdout, ctx, attempts, retErr, primary, panicking,
              destroyFailed, expiredAt, helpShown, result, exitStatus>>
resolverVars == <<imageStr, addTagStr, parseRes, tagRes>>
sysVars == <<flags, heap, srcSys, destSys, tagged>>
vars == <<execVars, resolverVars, sysVars>>

NotExited == -1
NotCalled == [kind |-> "none"]

NoResult == BuilderErr(NoErr)
NoCtx == [made |-> FALSE, deadline |-> FALSE, done |-> FALSE, cancelled |-> FALSE]

\* the option structs of one newSystemContext call
NoFlags == [src |-> PlainImage, dest |-> PlainImage,
            global |-> [tlsVerify |-> AbsentBool], deprecatedTLSVerify |-> AbsentBool]

\* a command line o, and commandAction or nothing about to run
ExecInit(o, at) ==
    /\ opts = o
    /\ pc = at
    /\ policy = "none"
    /\ acquisitions = 0
    /\ destroyCalls = 0
    /\ srcCalls = 0
    /\ destCalls = 0
    /\ srcRes = NoResult
    /\ destRes = NoResult
    /\ manifestType = ""
    /\ stdout = "stdout"
    /\ ctx = NoCtx
    /\ attempts = <<>>
    /\ retErr = NoErr
    /\ primary = NoErr
    /\ panicking = FALSE
    /\ destroyFailed = FALSE
    /\ expiredAt = "none"
    /\ helpShown = FALSE
    /\ result = NoErr
    /\ exitStatus = NotExited
\* no library call is made on its own
ResolverIdle ==
    /\ imageStr = <<>>
    /\ addTagStr = <<>>
    /\ parseRes = NotCalled
    /\ tagRes = NotCalled
SysIdle ==
    /\ flags = NoFlags
    /\ heap = <<>>
    /\ srcSys = NotCalled
    /\ destSys = NotCalled
    /\ tagged = "no"

Init ==
    /\ \E cmd \in Commands, args \in ArgLists, tag \in TagOverrides,
          format \in Formats, quiet \in BOOLEAN, retryTimes \in 0..MaxRetryTimes,
          commandTimeout \in Timeouts, srcImage \in SrcImageOptions,
          destImage \in DestImageOptions :
         \* only download has -o
         \E outFile \in (IF cmd = "download" THEN OutFiles ELSE {<<>>}) :
           ExecInit(Options(cmd, args, tag, outFile, format, quiet, retryTimes,
                            commandTimeout, srcImage, destImage), "start")
    /\ ResolverIdle
    /\ SysIdle

\* ------------------------------------------------- retry and context
\* outcomes of one copy.Image call
\* ("notfound": the registry answers that the manifest is unknown)
Outcomes == {"ok", "transient", "permanent", "notfound"}
\* the error of the n-th copy.Image call
AttemptErr(outcome, n) ==
    IF outcome = "ok" THEN NoErr ELSE << [msg |-> outcome, notes |-> <<ToString(n)>>] >>
\* retry.IsErrorRetryable: what the library classifies as transient
IsErrorRetryable(outcome) == outcome = "transient"

RetryStopsIgnoresClass(attempt, outcome, maxRetry) == attempt >= maxRetry \/ outcome = "ok"
RetryStopsOffByOne(attempt, outcome, maxRetry) ==
    attempt > maxRetry \/ ~IsErrorRetryable(outcome)
RetryStopsOnlyWhenSpent(attempt, outcome, maxRetry) ==
    attempt >= maxRetry \/ outcome = "permanent"

\* retry.IfNecessary: after attempt number `attempt` (from 0) the loop returns
\* the attempt's error when the budget is spent or the error is not retryable
RetryStops(attempt, outcome, maxRetry) ==
    attempt >= maxRetry \/ ~IsErrorRetryable(outcome)

BackoffIgnoresDone(c) == TRUE
\* the backoff wait of retry.IfNecessary ends by its timer only while the
\* context is not done; a done context ends the wait with the last error
BackoffMayElapse(c) == ~c.done

CommandTimeoutContextAlwaysDeadline(timeout) ==
    [made |-> TRUE, deadline |-> TRUE, done |-> FALSE, cancelled |-> FALSE]

\* globalOptions.commandTimeoutContext: a deadline only for a positive timeout
commandTimeoutContext(timeout) ==
    [made |-> TRUE, deadline |-> timeout > 0, done |-> FALSE, cancelled |-> FALSE]

CommandActionPassesAll(err) == [help |-> FALSE, err |-> err]

\* commandAction: a usage error becomes c.Help() (which returns nil)
commandAction(err) ==
    IF IsUsageError(err) THEN [help |-> TRUE, err |-> NoErr]
    ELSE [help |-> FALSE, err |-> err]

ReportWriterKeepsSink(quiet, sink) == sink
\* copy.go:64-66: quiet mode replaces the sink by nil
ReportWriter(quiet, sink) == IF quiet THEN "nil" ELSE sink

\* isNotFoundImageError: errors.As / errors.Is look through the %w chain for
\* a manifest-unknown (or no-such-image) error
isNotFoundImageError(err) == \E i \in 1..Len(err) : err[i].msg = "notfound"

ExitSuccess == 0
ExitFatal == 1
ExitNotFound == 2
ExitStatusIgnoresNotFound(err) == IF err = NoErr THEN ExitSuccess ELSE ExitFatal
\* root.go:88-100: nil ends the process normally, a not-found error exits
\* with 2, logrus.Fatal exits with 1
ExitStatus(err) ==
    IF err = NoErr THEN ExitSuccess
    ELSE IF isNotFoundImageError(err) THEN ExitNotFound
    ELSE ExitFatal

PolicyLoadErr == ErrorfV("error loading trust policy", NewErr("policy file unreadable"))

\* ------------------------------------------------- execCopy, step by step
\* `return e` at a point where `defers` names the next deferred call to run
\* a return that does not run the deferred calls
ReturnSkipsDefers(e, next) ==
    /\ retErr' = e
    /\ primary' = e
    /\ pc' = "returned"

\* a return that runs the deferred Destroy without the deferred cancel
ReturnRunsDestroyOnly(e, next) ==
    /\ retErr' = e
    /\ primary' = e
    /\ pc' = IF next = "deferCancel" THEN "deferDestroy" ELSE next

ReturnTo(e, next) ==
    /\ retErr' = e
    /\ primary' = e
    /\ pc' = next

\* copy.go:27-29
CheckArgs ==
    /\ pc = "start"
    /\ IF Len(opts.args) # 1
       THEN ReturnTo(UsageError, "returned")
       ELSE pc' = "policy" /\ UNCHANGED <<retErr, primary>>
    /\ UNCHANGED <<sysVars, resolverVars, exitStatus, opts, policy, acquisitions, destroyCalls, srcCalls, destCalls, srcRes, destRes,
                   manifestType, stdout, ctx, attempts, panicking, destroyFailed,
                   expiredAt, helpShown, result>>

\* copy.go:33-41: getPolicyContext, and the deferred Destroy once it succeeded
GetPolicyContext ==
    /\ pc = "policy"
    /\ \E loaded \in BOOLEAN :
         IF loaded
         THEN /\ policy' = "live"
              /\ acquisitions' = acquisitions + 1
              /\ pc' = "src"
              /\ UNCHANGED <<retErr, primary>>
         ELSE ReturnTo(PolicyLoadErr, "returned") /\ UNCHANGED <<policy, acquisitions>>
    /\ UNCHANGED <<sysVars, resolverVars, exitStatus, opts, destroyCalls, srcCalls, destCalls, srcRes, destRes,
                   manifestType, stdout, ctx, attempts, panicking, destroyFailed,
                   expiredAt, helpShown, result>>

\* copy.go:43-46
BuildSource ==
    /\ pc = "src"
    /\ \E r \in {SourceBuilder(opts, opts.args[1])} :
          /\ srcRes' = r
          /\ srcCalls' = srcCalls + 1
          /\ IF ~BuilderFailed(r)
             THEN pc' = "dest" /\ UNCHANGED <<retErr, primary>>
             ELSE ReturnTo(r.err, "deferDestroy")
    /\ UNCHANGED <<sysVars, resolverVars, exitStatus, opts, policy, acquisitions, destroyCalls, destCalls, destRes, manifestType,
                   stdout, ctx, attempts, panicking, destroyFailed, expiredAt,
                   helpShown, result>>

\* copy.go:48-51
BuildDest ==
    /\ pc = "dest"
    /\ \E r \in {DestBuilder(opts, opts.args[1])} :
          /\ destRes' = r
          /\ destCalls' = destCalls + 1
          /\ panicking' = (r.kind = "panic")
          /\ IF ~BuilderFailed(r)
             THEN pc' = "format" /\ UNCHANGED <<retErr, primary>>
             ELSE ReturnTo(r.err, "deferDestroy")
    /\ UNCHANGED <<sysVars, resolverVars, exitStatus, opts, policy, acquisitions, destroyCalls, srcCalls, srcRes, manifestType,
                   stdout, ctx, attempts, destroyFailed, expiredAt, helpShown, result>>

\* copy.go:53-59
ParseFormat ==
    /\ pc = "format"
    /\ \E r \in {IF opts.format.present THEN parseManifestFormat(opts.format.value)
                ELSE [val |-> "", err |-> NoErr]} :
          IF opts.format.present
          THEN IF r.err # NoErr
               THEN ReturnTo(r.err, "deferDestroy") /\ UNCHANGED manifestType
               ELSE /\ manifestType' = r.val
                    /\ pc' = "timeout"
                    /\ UNCHANGED <<retErr, primary>>
          ELSE pc' = "timeout" /\ UNCHANGED <<manifestType, retErr, primary>>
    /\ UNCHANGED <<sysVars, resolverVars, exitStatus, opts, policy, acquisitions, destroyCalls, srcCalls, destCalls, srcRes, destRes,
                   stdout, ctx, attempts, panicking, destroyFailed, expiredAt,
                   helpShown, result>>

\* copy.go:61-68: the command context, the deferred cancel, the quiet sink
CommandTimeoutContext ==
    /\ pc = "timeout"
    /\ ctx' = commandTimeoutContext(opts.commandTimeout)
    /\ stdout' = ReportWriter(opts.quiet, stdout)
    /\ pc' = "retry"
    /\ UNCHANGED <<sysVars, resolverVars, exitStatus, opts, policy, acquisitions, destroyCalls, srcCalls, destCalls, srcRes, destRes,
                   manifestType, attempts, retErr, primary, panicking, destroyFailed,
                   expiredAt, helpShown, result>>

\* the copy.Image call of copy.go:71-77, as it is entered
NewAttempt ==
    [ctxDeadline |-> ctx.deadline, ctxDone |-> ctx.done, policy |-> policy,
     sink |-> stdout, manifestType |-> manifestType,
     srcRef |-> srcRes.ref, destRef |-> destRes.ref, outcome |-> "running"]

\* copy.go:70: retry.IfNecessary calls the operation a first time
StartAttempt ==
    /\ pc = "retry"
    /\ attempts' = Append(attempts, NewAttempt)
    /\ pc' = "copying"
    /\ UNCHANGED <<sysVars, resolverVars, exitStatus, opts, policy, acquisitions, destroyCalls, srcCalls, destCalls, srcRes, destRes,
                   manifestType, stdout, ctx, retErr, primary, panicking,
                   destroyFailed, expiredAt, helpShown, result>>

\* copy.go:71-83: copy.Image returns; the loop returns its error or waits
FinishAttempt ==
    /\ pc = "copying"
    /\ \E outcome \in Outcomes :
         LET n == Len(attempts)
         IN /\ attempts' = [attempts EXCEPT ![n].outcome = outcome]
            /\ IF RetryStops(n - 1, outcome, opts.retryTimes)
               THEN ReturnTo(AttemptErr(outcome, n), "deferCancel")
               ELSE pc' = "backoff" /\ UNCHANGED <<retErr, primary>>
    /\ UNCHANGED <<sysVars, resolverVars, exitStatus, opts, policy, acquisitions, destroyCalls, srcCalls, destCalls, srcRes, destRes,
                   manifestType, stdout, ctx, panicking, destroyFailed, expiredAt,
                   helpShown, result>>

\* retry.IfNecessary: the backoff timer fires and the operation is called again
\* (the loop does not look at the context between the two)
BackoffElapsed ==
    /\ pc = "backoff"
    /\ BackoffMayElapse(ctx)
    /\ attempts' = Append(attempts, NewAttempt)
    /\ pc' = "copying"
    /\ UNCHANGED <<sysVars, resolverVars, exitStatus, opts, policy, acquisitions, destroyCalls, srcCalls, destCalls, srcRes, destRes,
                   manifestType, stdout, ctx, retErr, primary, panicking,
                   destroyFailed, expiredAt, helpShown, result>>

\* retry.IfNecessary: the context is done during the backoff wait; the loop
\* returns the last attempt's error
BackoffCancelled ==
    /\ pc = "backoff"
    /\ ctx.done
    /\ LET n == Len(attempts)
       IN ReturnTo(AttemptErr(attempts[n].outcome, n), "deferCancel")
    /\ UNCHANGED <<sysVars, resolverVars, exitStatus, opts, policy, acquisitions, destroyCalls, srcCalls, destCalls, srcRes, destRes,
                   manifestType, stdout, ctx, attempts, panicking, destroyFailed,
                   expiredAt, helpShown, result>>

\* the deadline of context.WithTimeout passes (copy.go:122-124)
DeadlineExpires ==
    /\ ctx.made /\ ctx.deadline /\ ~ctx.done
    /\ pc \in {"retry", "copying", "backoff", "deferCancel"}
    /\ ctx' = [ctx EXCEPT !.done = TRUE]
    /\ expiredAt' = pc
    /\ UNCHANGED <<sysVars, resolverVars, exitStatus, opts, pc, policy, acquisitions, destroyCalls, srcCalls, destCalls, srcRes, destRes,
                   manifestType, stdout, attempts, retErr, primary, panicking,
                   destroyFailed, helpShown, result>>

\* copy.go:62: the deferred cancel(); a no-op without a deadline
DeferCancel ==
    /\ pc = "deferCancel"
    /\ ctx' = [ctx EXCEPT !.cancelled = TRUE, !.done = ctx.done \/ ctx.deadline]
    /\ pc' = "deferDestroy"
    /\ UNCHANGED <<sysVars, resolverVars, exitStatus, opts, policy, acquisitions, destroyCalls, srcCalls, destCalls, srcRes, destRes,
                   manifestType, stdout, attempts, retErr, primary, panicking,
                   destroyFailed, expiredAt, helpShown, result>>

\* copy.go:37-41: the deferred Destroy; its failure is noted in retErr
DeferDestroy ==
    /\ pc = "deferDestroy"
    /\ \E fails \in BOOLEAN :
         /\ destroyFailed' = fails
         /\ retErr' = IF fails THEN noteCloseFailure(retErr, TeardownMsg, DestroyErr)
                      ELSE retErr
    /\ policy' = "destroyed"
    /\ destroyCalls' = destroyCalls + 1
    /\ pc' = IF panicking THEN "crashed" ELSE "returned"
    /\ UNCHANGED <<sysVars, resolverVars, exitStatus, opts, acquisitions, srcCalls, destCalls, srcRes, destRes,
                   manifestType, stdout, ctx, attempts, primary, panicking, expiredAt,
                   helpShown, result>>

\* utis.go:39-48: commandAction receives the handler's error
CommandAction ==
    /\ pc = "returned"
    /\ \E r \in {commandAction(retErr)} :
          helpShown' = r.help /\ result' = r.err
    /\ pc' = "done"
    /\ UNCHANGED <<sysVars, resolverVars, exitStatus, opts, policy, acquisitions, destroyCalls, srcCalls, destCalls, srcRes, destRes,
                   manifestType, stdout, ctx, attempts, retErr, primary, panicking,
                   destroyFailed, expiredAt>>

\* the steps of the retry loop and of the deferred calls
\* root.go:88-100: Execute turns what rootCmd.Execute returned into the exit
\* status (a panic that reaches the top ends the process with status 2)
Execute ==
    /\ pc \in {"done", "crashed"}
    /\ exitStatus' = IF pc = "crashed" THEN ExitNotFound ELSE ExitStatus(result)
    /\ pc' = "exited"
    /\ UNCHANGED <<sysVars, resolverVars, opts, policy, acquisitions, destroyCalls, srcCalls, destCalls,
                   srcRes, destRes, manifestType, stdout, ctx, attempts, retErr, primary,
                   panicking, destroyFailed, expiredAt, helpShown, result>>

RetryLoopStep ==
    \/ StartAttempt \/ FinishAttempt \/ BackoffElapsed \/ BackoffCancelled
    \/ DeferCancel \/ DeferDestroy

Next ==
    \/ CheckArgs
    \/ GetPolicyContext
    \/ BuildSource
    \/ BuildDest
    \/ ParseFormat
    \/ CommandTimeoutContext
    \/ StartAttempt
    \/ FinishAttempt
    \/ BackoffElapsed
    \/ BackoffCancelled
    \/ DeadlineExpires
    \/ DeferCancel
    \/ DeferDestroy
    \/ CommandAction
    \/ Execute

Spec == Init /\ [][Next]_vars

\* pull with the connection flags left alone: the runs in which only the
\* arguments, the format, the sink, the retry budget and the timeout vary
TimeoutInit ==
    /\ Init
    /\ opts.cmd = "pull"
    /\ opts.addTag = <<>>
    /\ opts.srcImage = PlainImage
    /\ opts.destImage = PlainImage

\* the retry loop keeps running: a copy.Image call returns, the backoff
\* select takes a branch that is ready, the deferred calls run
TimeoutSpec == TimeoutInit /\ [][Next]_vars /\ WF_vars(RetryLoopStep)

\* ------------------------------------------------- the library calls on their own
\* image strings: a name, an optional tag, an optional digest part
RefNames ==
    { <<"redis">>,
      <<"library", "/", "redis">>,
      <<"docker.io", "/", "library", "/", "redis">>,
      <<"myregistry.example.com", "/", "team", "/", "app">>,
      <<"myregistry.example.com", "/", "app">>,
      <<"Redis">> }
RefTags == { <<>>, <<":", "v1">> }
RefDigests ==
    { <<>>,
      <<DigestMarker, HEX64>>,
      <<DigestMarker, HEX4>>,
      <<DigestMarker>>,
      <<DigestMarker, HEX64, DigestMarker, HEX64>> }
RefStrings == { n \o t \o d : n \in RefNames, t \in RefTags, d \in RefDigests }
\* override strings
Overrides == TagOverrides \cup { <<"custom">>, <<"myregistry.example.com", "/", "custom", ":", "v2">> }

\* no command is running; an image string and an override are given
ResolverInit ==
    /\ ExecInit(Options("pull", <<>>, <<>>, <<>>, NoFormat, FALSE, 0, 0, PlainImage, PlainImage), "idle")
    /\ imageStr \in RefStrings
    /\ addTagStr \in Overrides
    /\ parseRes = NotCalled
    /\ tagRes = NotCalled
    /\ SysIdle

\* image.go:20-40: ParseImageStr(imageStr); `split` is what its splitDigest
\* call returned
ParseImage ==
    /\ pc = "idle"
    /\ parseRes.kind = "none"
    /\ \E sd \in {splitDigest(imageStr)} :
         \E r \in {ImageStructAfterSplit(sd)} :
            parseRes' = [kind |-> "returned", split |-> sd, info |-> r.info, err |-> r.err]
    /\ UNCHANGED <<execVars, sysVars, imageStr, addTagStr, tagRes>>

\* copy.go:386: buildDestTag(parsedImage, addTag) on a parsed image
ResolveDestTag ==
    /\ pc = "idle"
    /\ parseRes.kind = "returned"
    /\ parseRes.err = NoErr
    /\ tagRes.kind = "none"
    /\ tagRes' = buildDestTag(parseRes.info, addTagStr)
    /\ UNCHANGED <<execVars, sysVars, imageStr, addTagStr, parseRes>>

ResolverNext == ParseImage \/ ResolveDestTag

ResolverSpec == ResolverInit /\ [][ResolverNext]_vars

\* ------------------------------------------------- system contexts on their own
\* --creds values: user:pass, user, user:, user:pa:ss, the empty string, :pass
CredsValues ==
    { <<"user", ":", "pass">>, <<"user">>, <<"user", ":">>,
      <<"user", ":", "pa", ":", "ss">>, <<>>, <<":", "pass">> }
OptionalStrings(values) == {Absent} \cup { Given(v) : v \in values }
OptionalBools == { AbsentBool, GivenBool(TRUE), GivenBool(FALSE) }
\* the per-image flags of one image
ImageFlagSets ==
    [credsOption : OptionalStrings(CredsValues), userName : OptionalStrings({<<"user">>}),
     password : OptionalStrings({<<"pass">>}), noCreds : BOOLEAN, tlsVerify : OptionalBools]
\* tags handed to addTag: accepted, not a reference, not a tagged reference
SysTags ==
    { <<"custom", ":", "v2">>, <<"Redis", ":", "latest">>, <<"redis", DigestMarker, HEX64>> }

\* an address that every earlier allocation already uses
NewObjectReused(h) == 1
\* &types.SystemContext{...}: the address of a new object
NewObject(h) == Len(h) + 1
\* the object at address ptr becomes c
Store(h, ptr, c) == IF ptr = Len(h) + 1 THEN Append(h, c) ELSE [h EXCEPT ![ptr] = c]
\* (ctx, err) as the caller receives it: the address of the context, or nil (0)
SysReturned(r, ptr) ==
    [kind |-> "returned", ok |-> r.ok, ptr |-> IF r.ok THEN ptr ELSE 0, err |-> r.err]

\* no command is running; the option structs are given
SysCtxInit ==
    /\ ExecInit(Options("download", <<>>, <<>>, <<>>, NoFormat, FALSE, 0, 0, PlainImage, PlainImage), "idle")
    /\ ResolverIdle
    /\ flags \in [src : ImageFlagSets, dest : {PlainImage, CredsImage},
                  global : [tlsVerify : OptionalBools], deprecatedTLSVerify : OptionalBools]
    /\ heap = <<>>
    /\ srcSys = NotCalled
    /\ destSys = NotCalled
    /\ tagged = "no"

\* copy.go:371: opts.srcImage.newSystemContext()
NewSourceContext ==
    /\ pc = "idle"
    /\ srcSys.kind = "none"
    /\ \E r \in {newSystemContext(flags.src, flags.global, flags.deprecatedTLSVerify)} :
         \E ptr \in {NewObject(heap)} :
            /\ srcSys' = SysReturned(r, ptr)
            /\ heap' = IF r.ok THEN Store(heap, ptr, r.ctx) ELSE heap
    /\ UNCHANGED <<execVars, resolverVars, flags, destSys, tagged>>

\* part_000:90: opts.destImage.newSystemContext(), after the source builder
\* returned without error
NewDestContext ==
    /\ pc = "idle"
    /\ srcSys.kind = "returned"
    /\ srcSys.ok
    /\ destSys.kind = "none"
    /\ \E r \in {newSystemContext(flags.dest, flags.global, flags.deprecatedTLSVerify)} :
         \E ptr \in {NewObject(heap)} :
            /\ destSys' = SysReturned(r, ptr)
            /\ heap' = IF r.ok THEN Store(heap, ptr, r.ctx) ELSE heap
    /\ UNCHANGED <<execVars, resolverVars, flags, srcSys, tagged>>

\* part_000:102: addTag(destCtx, destTag)
AddTagToDest ==
    /\ pc = "idle"
    /\ destSys.kind = "returned"
    /\ destSys.ok
    /\ tagged = "no"
    /\ \E tag \in SysTags :
         IF addTagOK(tag)
         THEN /\ heap' = [heap EXCEPT ![destSys.ptr] = addTag(@, tag)]
              /\ tagged' = "ok"
         ELSE /\ heap' = heap
              /\ tagged' = "rejected"
    /\ UNCHANGED <<execVars, resolverVars, flags, srcSys, destSys>>

SysCtxNext == NewSourceContext \/ NewDestContext \/ AddTagToDest

SysCtxSpec == SysCtxInit /\ [][SysCtxNext]_vars

\* ------------------------------------------------- push
\* push with the connection flags left alone: the image argument, -t, the
\* retry budget and the timeout vary
PushInit ==
    /\ \E args \in ArgLists, tag \in Overrides, retryTimes \in 0..MaxRetryTimes,
          commandTimeout \in Timeouts :
           ExecInit(Options("push", args, tag, <<>>, NoFormat, FALSE, retryTimes,
                            commandTimeout, PlainImage, PlainImage), "start")
    /\ ResolverIdle
    /\ SysIdle

PushSpec == PushInit /\ [][Next]_vars

\* ------------------------------------------------- claims
Returned == pc \in {"returned", "done"}
InRetryLoop == pc \in {"retry", "copying", "backoff"}
LastAttempt == attempts[Len(attempts)]
AllTransient == \A i \in 1..Len(attempts) : attempts[i].outcome = "transient"
\* err is e, or wraps e as its cause
ReturnsError(err, e) == e # NoErr /\ ErrorsIs(err, e)

\* C1: a policy context that was acquired is destroyed exactly once before
\* execCopy returns, on every exit path; one that was not acquired (wrong
\* argument count, policy loading failure) is never destroyed.
C1_PolicyReleasedOnce ==
    /\ acquisitions <= 1
    /\ destroyCalls <= acquisitions
    /\ (Returned \/ pc = "crashed") => destroyCalls = acquisitions /\ policy # "live"
    /\ Len(opts.args) # 1 => destroyCalls = 0
    /\ (Returned /\ primary = PolicyLoadErr) => destroyCalls = 0

\* retry exhaustion: the budget is spent on transient failures, execCopy has
\* returned, the policy context was acquired and destroyed once
C1_Witness ==
    /\ pc = "returned"
    /\ opts.retryTimes >= 1
    /\ Len(attempts) = opts.retryTimes + 1
    /\ AllTransient
    /\ acquisitions = 1
    /\ destroyCalls = 1

\* C2: a failing Destroy is never dropped and never replaces the primary
\* error: with a primary error E the returned error unwraps to E and carries
\* the teardown failure as text; with no primary error the returned error
\* wraps the teardown failure; a succeeding Destroy leaves the result as is.
C2_TeardownMerged ==
    Returned =>
      /\ (destroyFailed /\ primary # NoErr) =>
            /\ Unwrap(retErr) = primary
            /\ \E i \in 1..Len(Head(retErr).notes) :
                   Head(retErr).notes[i] = Head(DestroyErr).msg
      /\ (destroyFailed /\ primary = NoErr) =>
            /\ retErr # NoErr
            /\ ErrorsIs(retErr, DestroyErr)
      /\ ~destroyFailed => retErr = primary

\* Destroy failed after a copy attempt had failed
C2_Witness ==
    /\ pc = "returned"
    /\ destroyFailed
    /\ Len(attempts) = 1
    /\ primary = AttemptErr("permanent", 1)

\* C3: the copy is attempted at most --retry-times + 1 times (once with the
\* default 0), and when all of these attempts fail transiently the error of
\* the last one is what execCopy returns.
C3_AttemptsBounded ==
    /\ Len(attempts) <= opts.retryTimes + 1
    /\ opts.retryTimes = 0 => Len(attempts) <= 1
    /\ (Len(attempts) = opts.retryTimes + 1 /\ AllTransient /\ ~InRetryLoop) =>
          /\ primary = AttemptErr("transient", opts.retryTimes + 1)
          /\ Returned => ReturnsError(retErr, primary)
          /\ (Returned /\ ~destroyFailed) => retErr = primary

\* three transient failures with --retry-times 2
C3_Witness ==
    /\ pc = "done"
    /\ opts.retryTimes = 2
    /\ Len(attempts) = 3
    /\ AllTransient
    /\ result = AttemptErr("transient", 3)

\* C4: an attempt that fails with an error the library does not classify as
\* transient is the last attempt, whatever budget remains, and its error is
\* what execCopy returns.
C4_PermanentStops ==
    \A i \in 1..Len(attempts) :
       attempts[i].outcome = "permanent" =>
          /\ i = Len(attempts)
          /\ ~InRetryLoop
          /\ primary = AttemptErr("permanent", i)
          /\ Returned => ReturnsError(retErr, primary)
          /\ (Returned /\ ~destroyFailed) => retErr = primary

\* a permanent failure on the first attempt with two retries left
C4_Witness ==
    /\ pc = "done"
    /\ opts.retryTimes = 2
    /\ Len(attempts) = 1
    /\ attempts[1].outcome = "permanent"
    /\ result = AttemptErr("permanent", 1)

\* C5: an attempt that succeeds after transient failures is the last attempt
\* and execCopy returns success: the retry loop returns nil, nothing of the
\* earlier failures is in the returned value, and the returned value is nil
\* (unless Destroy fails, whose error C2 describes).
C5_SuccessAfterRetry ==
    \A i \in 1..Len(attempts) :
       attempts[i].outcome = "ok" =>
          /\ i = Len(attempts)
          /\ ~InRetryLoop
          /\ primary = NoErr
          /\ \A j \in 1..Len(retErr) : retErr[j].msg # "transient"
          /\ (Returned /\ ~destroyFailed) => retErr = NoErr
          /\ (pc = "done" /\ ~destroyFailed) => result = NoErr

\* failure on attempt 1, success on attempt 2, with --retry-times 2
C5_Witness ==
    /\ pc = "done"
    /\ opts.retryTimes = 2
    /\ Len(attempts) = 2
    /\ attempts[1].outcome = "transient"
    /\ attempts[2].outcome = "ok"
    /\ result = NoErr

\* the deadline expired while the retry loop was running an attempt or
\* waiting between two attempts
ExpiredInLoop == expiredAt \in {"copying", "backoff"}

\* the parts of C6 that are about every state
C6_Always ==
    \* no attempt is entered with the context already done by such an expiry
    /\ \A i \in 1..Len(attempts) : ExpiredInLoop => ~attempts[i].ctxDone
    \* every attempt gets the command context, deadlined iff the timeout is positive
    /\ \A i \in 1..Len(attempts) : attempts[i].ctxDeadline = (opts.commandTimeout > 0)
    \* a timeout of zero or less: no deadline, never done
    /\ opts.commandTimeout <= 0 => ~ctx.deadline /\ ~ctx.done /\ expiredAt = "none"

\* C6 as stated: after an expiry in the retry loop no attempt is started and
\* execCopy returns with an error; every attempt gets the same deadlined
\* context; without a positive timeout the context is never cancelled.
C6_Original ==
    /\ C6_Always
    /\ (Returned /\ ExpiredInLoop) => retErr # NoErr

\* C6 amended: as C6, but execCopy returns with an error unless the attempt
\* that was running at the expiry completes successfully; and it does return.
C6_Safety ==
    /\ C6_Always
    /\ (Returned /\ ExpiredInLoop) =>
          \/ retErr # NoErr
          \/ expiredAt = "copying" /\ LastAttempt.outcome = "ok"
C6_Amended ==
    /\ []C6_Safety
    /\ (ExpiredInLoop ~> (Returned \/ pc = "exited"))

\* the deadline expired during a backoff wait with budget left, and execCopy
\* returned the last error without a further attempt
C6_Witness ==
    /\ pc = "done"
    /\ expiredAt = "backoff"
    /\ opts.retryTimes = 2
    /\ Len(attempts) = 1
    /\ result = AttemptErr("transient", 1)

\* C7: a builder error is what execCopy returns, with no copy attempt; after
\* a source builder error the destination builder is not called.
C7_BuilderFailureAborts ==
    /\ (srcCalls = 1 /\ srcRes.kind = "err") =>
          /\ destCalls = 0
          /\ attempts = <<>>
          /\ ~InRetryLoop
          /\ primary = srcRes.err
          /\ Returned => ReturnsError(retErr, srcRes.err)
          /\ (Returned /\ ~destroyFailed) => retErr = srcRes.err
    /\ (destCalls = 1 /\ destRes.kind = "err") =>
          /\ attempts = <<>>
          /\ ~InRetryLoop
          /\ primary = destRes.err
          /\ Returned => ReturnsError(retErr, destRes.err)
          /\ (Returned /\ ~destroyFailed) => retErr = destRes.err

\* the source builder failed, with retries configured
C7_Witness ==
    /\ pc = "done"
    /\ opts.retryTimes = 2
    /\ srcCalls = 1
    /\ srcRes.kind = "err"
    /\ destCalls = 0
    /\ result = srcRes.err

\* download IMAGE with a digest in IMAGE and no -t
DigestDownload ==
    /\ opts.cmd = "download"
    /\ Len(opts.args) = 1
    /\ Contains(opts.args[1], DigestMarker)
    /\ opts.addTag = <<>>

\* C8 as stated, for a run that loaded the policy: such a download makes no
\* copy attempt and always fails with the digest-requires-explicit-tag error.
C8_Original ==
    DigestDownload =>
       /\ attempts = <<>>
       /\ (Returned /\ acquisitions = 1) => ReturnsError(retErr, DigestRequiresTag)

\* the steps of a digest download that come before the tag is resolved went
\* through: source builder, archive name, destination flags
C8_ReachedResolver ==
    /\ srcCalls = 1
    /\ srcRes.kind = "ok"
    /\ ArchiveTransportOK(IF opts.outFile # <<>> THEN opts.outFile
                          ELSE getDefaultImageTarName(ParseImageStr(opts.args[1]).info))
    /\ newSystemContext(opts.destImage, opts.global, opts.deprecatedTLSVerify).ok

\* C8 amended: such a download always fails without a copy attempt, whatever
\* the retry budget; the error is the digest-requires-explicit-tag error when
\* every step before the tag resolution succeeded, else that step's error.
C8_Amended ==
    DigestDownload =>
       /\ attempts = <<>>
       /\ ~InRetryLoop
       /\ Returned => retErr # NoErr
       /\ pc = "done" => result # NoErr
       /\ (Returned /\ C8_ReachedResolver) => ReturnsError(retErr, DigestRequiresTag)
       /\ (Returned /\ ~C8_ReachedResolver) => ~ReturnsError(retErr, DigestRequiresTag)

\* a digest download with retries configured failed at the tag resolution
C8_Witness ==
    /\ DigestDownload
    /\ opts.retryTimes = 2
    /\ pc = "done"
    /\ result = DigestRequiresTag
    /\ attempts = <<>>

\* C9: with other than one positional argument execCopy returns the usage
\* error and has not acquired the policy context, called a builder or
\* attempted a copy; commandAction prints the help for exactly this error and
\* passes every other error through unchanged.
C9_UsageError ==
    /\ (Len(opts.args) # 1 /\ pc # "start") =>
          /\ retErr = UsageError
          /\ acquisitions = 0 /\ policy = "none"
          /\ srcCalls = 0 /\ destCalls = 0
          /\ attempts = <<>>
    /\ Returned => (IsUsageError(retErr) <=> Len(opts.args) # 1)
    /\ pc = "done" =>
          /\ helpShown <=> Len(opts.args) # 1
          /\ ~helpShown => result = retErr

\* two positional arguments: the help was printed
C9_Witness ==
    /\ pc = "done"
    /\ Len(opts.args) = 2
    /\ helpShown
    /\ acquisitions = 0

\* the MIME type each accepted -f value stands for
FormatType(f) ==
    CASE f = "oci" -> MediaTypeImageManifest
      [] f = "v2s1" -> DockerV2Schema1SignedMediaType
      [] f = "v2s2" -> DockerV2Schema2MediaType
      [] OTHER -> ""

\* C10: -f accepts only oci, v2s1 and v2s2, each with its own manifest type;
\* any other value makes execCopy return an error without a copy attempt;
\* without -f the manifest type given to the copy is empty.
C10_ManifestFormat ==
    /\ Cardinality({FormatType("oci"), FormatType("v2s1"), FormatType("v2s2"), ""}) = 4
    /\ \A i \in 1..Len(attempts) :
          /\ opts.format.present => opts.format.value \in {"oci", "v2s1", "v2s2"}
          /\ attempts[i].manifestType =
                IF opts.format.present THEN FormatType(opts.format.value) ELSE ""
    /\ (opts.format.present /\ opts.format.value \notin {"oci", "v2s1", "v2s2"}) =>
          /\ attempts = <<>>
          /\ ~InRetryLoop
          /\ (Returned /\ destCalls = 1 /\ destRes.kind = "ok") =>
                ReturnsError(retErr, UnknownFormat)

\* -f v3 with both builders succeeding and retries configured
C10_Witness ==
    /\ pc = "done"
    /\ opts.format = [present |-> TRUE, value |-> "v3"]
    /\ opts.retryTimes = 2
    /\ destCalls = 1
    /\ destRes.kind = "ok"
    /\ result = UnknownFormat
    /\ attempts = <<>>

\* C11 as stated: a run whose handler returned an error exits with a non-zero
\* status, status 0 occurs only when the handler succeeded, and the status is
\* 2 exactly when the error is classified as image/manifest not found.
C11_Original ==
    pc = "exited" =>
      /\ retErr # NoErr => exitStatus # ExitSuccess
      /\ exitStatus = ExitSuccess => retErr = NoErr
      /\ exitStatus = ExitNotFound <=> isNotFoundImageError(retErr)

\* a flag conflict stopped the run: a builder's newSystemContext refused the
\* credential flags and its error is what execCopy returned
FlagConflictReported ==
    /\ pc \in {"done", "exited"}
    /\ \/ /\ srcCalls = 1 /\ srcRes.kind = "err"
          /\ ~newSystemContext(opts.srcImage, opts.global, opts.deprecatedTLSVerify).ok
          /\ primary = newSystemContext(opts.srcImage, opts.global, opts.deprecatedTLSVerify).err
       \/ /\ destCalls = 1 /\ destRes.kind = "err"
          /\ ~newSystemContext(opts.destImage, opts.global, opts.deprecatedTLSVerify).ok
          /\ primary = newSystemContext(opts.destImage, opts.global, opts.deprecatedTLSVerify).err

\* C12 as stated: a conflicting flag combination is reported as a usage
\* error, that is, by printing the command help.
C12_Original ==
    FlagConflictReported => IsUsageError(retErr) /\ helpShown

\* C13: with quiet mode every copy attempt, the first and every retry, gets no
\* progress sink (nil); without it every attempt gets the caller's sink.
C13_QuietSink ==
    /\ \A i \in 1..Len(attempts) :
          attempts[i].sink = IF opts.quiet THEN "nil" ELSE "stdout"
    /\ (InRetryLoop /\ opts.quiet) => stdout = "nil"
    /\ ~opts.quiet => stdout = "stdout"

\* a quiet run with three attempts
C13_Witness ==
    /\ opts.quiet
    /\ Len(attempts) = 3
    /\ pc = "exited"
    /\ \A i \in 1..3 : attempts[i].sink = "nil"

\* the places of the marker "@sha256:" in the image string
MarkerPlaces == { i \in 1..Len(imageStr) : imageStr[i] = DigestMarker }
\* the text before the first marker, and the text after it
BeforeMarker == SubSeq(imageStr, 1, (CHOOSE i \in MarkerPlaces : \A j \in MarkerPlaces : i <= j) - 1)
AfterMarker == SubSeq(imageStr, (CHOOSE i \in MarkerPlaces : \A j \in MarkerPlaces : i <= j) + 1, Len(imageStr))
\* ParseImageStr returned an image and no error
Parsed == parseRes.kind = "returned" /\ parseRes.err = NoErr
\* buildDestTag was called on the parsed image
Resolved == tagRes.kind # "none"
\* the tag the resolver uses: the parsed one, or latest
TagOrLatest == IF parseRes.info.Tag # <<>> THEN parseRes.info.Tag ELSE <<"latest">>

\* C14 as stated: buildDestTag returns the digest-requires-explicit-tag error
\* exactly when the parsed digest is non-empty and the override is empty, and
\* a destination string with no error in every other case.
C14_Original ==
    Resolved =>
      IF parseRes.info.Digest # <<>> /\ addTagStr = <<>>
      THEN tagRes.kind = "err" /\ tagRes.err = DigestRequiresTag
      ELSE tagRes.kind = "ok" /\ tagRes.err = NoErr /\ tagRes.val # <<>>

\* C15: with a non-empty override the resolver's result is a function of the
\* override alone: the override when it holds a ':', else the override
\* followed by ":latest"; no field of the parsed image changes it.
C15_OverrideOnly ==
    (Resolved /\ addTagStr # <<>>) =>
      /\ tagRes.kind = "ok"
      /\ tagRes.err = NoErr
      /\ tagRes.val = IF \E i \in 1..Len(addTagStr) : addTagStr[i] = ":"
                      THEN addTagStr
                      ELSE addTagStr \o <<":", "latest">>

\* a digest image on another registry, resolved with the override custom:v2
C15_Witness ==
    /\ Resolved
    /\ imageStr = <<"myregistry.example.com", "/", "team", "/", "app", DigestMarker, HEX64>>
    /\ addTagStr = <<"custom", ":", "v2">>
    /\ tagRes.val = <<"custom", ":", "v2">>

\* C16: a docker.io reference with no digest, resolved with no override, gives
\* name ":" tag, the name being the last path segment and the tag the parsed
\* tag or latest; "redis" gives "redis:latest".
C16_DefaultRegistry ==
    (Resolved /\ addTagStr = <<>> /\ parseRes.info.Digest = <<>>
              /\ parseRes.info.Registry = <<"docker.io">>) =>
      /\ tagRes.kind = "ok"
      /\ tagRes.val = <<imageStr[IF parseRes.info.Tag = <<>> THEN Len(imageStr)
                                  ELSE Len(imageStr) - 2]>> \o <<":">> \o TagOrLatest
      /\ parseRes.info.Tag = <<>> => tagRes.val[Len(tagRes.val)] = "latest"
      /\ imageStr = <<"redis">> => tagRes.val = <<"redis", ":", "latest">>

\* "redis" parsed and resolved with no override
C16_Witness ==
    /\ Resolved
    /\ imageStr = <<"redis">>
    /\ addTagStr = <<>>
    /\ parseRes.info.Registry = <<"docker.io">>
    /\ tagRes.val = <<"redis", ":", "latest">>

\* C17 as stated: a reference on another registry with no digest, resolved
\* with no override, gives registry "/" repository ":" tag.
C17_Original ==
    (Resolved /\ addTagStr = <<>> /\ parseRes.info.Digest = <<>>
              /\ parseRes.info.Registry # <<"docker.io">>) =>
      /\ tagRes.kind = "ok"
      /\ tagRes.val = parseRes.info.Registry \o <<"/">> \o parseRes.info.Repository
                         \o <<":">> \o TagOrLatest
      /\ imageStr = <<"myregistry.example.com", "/", "team", "/", "app", ":", "v1">> =>
            tagRes.val = imageStr

\* the image string has one marker, a hex suffix after it, and was parsed
ParsedWithDigest ==
    /\ Parsed
    /\ Cardinality(MarkerPlaces) = 1
    /\ AfterMarker \in {<<HEX64>>, <<HEX4>>}

\* C18 as stated: such a string parses to the digest "sha256:" + suffix and
\* to an empty tag, also when the name before the marker carries a ":tag".
C18_Original ==
    ParsedWithDigest =>
      /\ parseRes.info.Digest = <<DigestAlgo>> \o AfterMarker
      /\ parseRes.info.Tag = <<>>

\* C18 amended: such a string parses to the digest "sha256:" + suffix, and to
\* the tag of the name before the marker: empty when that name has no
\* ":tag", the tag when it has one.
C18_Amended ==
    ParsedWithDigest =>
      /\ parseRes.info.Digest = <<DigestAlgo>> \o AfterMarker
      /\ parseRes.info.Tag =
            IF Len(BeforeMarker) >= 2 /\ BeforeMarker[Len(BeforeMarker) - 1] = ":"
            THEN <<BeforeMarker[Len(BeforeMarker)]>>
            ELSE <<>>

\* redis:v1@sha256:<64 hex> parsed: the digest and the tag v1
C18_Witness ==
    /\ Parsed
    /\ imageStr = <<"redis", ":", "v1", DigestMarker, HEX64>>
    /\ parseRes.info.Digest = <<DigestAlgo, HEX64>>
    /\ parseRes.info.Tag = <<"v1">>

\* C19: a string with more than one marker is rejected with the
\* invalid-digest-format error and an image with no field set; a string with
\* exactly one marker is split into the text before it and "sha256:" plus the
\* text after it.
C19_SplitDigest ==
    parseRes.kind = "returned" =>
      /\ Cardinality(MarkerPlaces) > 1 =>
            /\ parseRes.err = InvalidDigestFormat
            /\ parseRes.info = EmptyImageStruct
      /\ Cardinality(MarkerPlaces) = 1 =>
            /\ parseRes.split.err = NoErr
            /\ parseRes.split.image = BeforeMarker
            /\ parseRes.split.digest = <<DigestAlgo>> \o AfterMarker

\* a string with two markers was rejected
C19_Witness ==
    /\ parseRes.kind = "returned"
    /\ imageStr = <<"redis", DigestMarker, HEX64, DigestMarker, HEX64>>
    /\ parseRes.err = InvalidDigestFormat

\* C20 as stated: parsing "redis@sha256:" does not succeed.
C20_Original ==
    (parseRes.kind = "returned" /\ imageStr = <<"redis", DigestMarker>>) =>
       parseRes.err # NoErr

\* C21 as stated: with a non-empty digest and an empty override the resolver
\* returns the digest-requires-explicit-tag error as a value, for every
\* digest string, also one shorter than the 19-character prefix of the
\* message; it never aborts.
C21_Original ==
    (Resolved /\ parseRes.info.Digest # <<>> /\ addTagStr = <<>>) =>
      /\ tagRes.kind # "panic"
      /\ tagRes.kind = "err"
      /\ tagRes.err = DigestRequiresTag

\* C22: when the parser succeeds, the digest is non-empty exactly when the
\* input held the marker "@sha256:"; an input without the marker has an empty
\* digest and goes to the normalizer unchanged.
C22_DigestIffMarker ==
    /\ Parsed => (parseRes.info.Digest # <<>> <=> MarkerPlaces # {})
    /\ (parseRes.kind = "returned" /\ MarkerPlaces = {}) =>
          /\ parseRes.split.err = NoErr
          /\ parseRes.split.digest = <<>>
          /\ parseRes.split.image = imageStr
          /\ parseRes.info.Digest = <<>>

\* "redis@sha256:" parsed: the marker with nothing after it still gives a
\* non-empty digest
C22_Witness ==
    /\ Parsed
    /\ imageStr = <<"redis", DigestMarker>>
    /\ parseRes.info.Digest = <<DigestAlgo>>

\* the image argument of the run, and the part of it before a digest marker
ImageArg == opts.args[1]
ImageArgName ==
    IF Contains(ImageArg, DigestMarker)
    THEN SubSeq(ImageArg, 1, FirstIndex(ImageArg, DigestMarker) - 1)
    ELSE ImageArg
ImageArgHasTag == Len(ImageArgName) >= 3 /\ ImageArgName[Len(ImageArgName) - 1] = ":"
\* the archive name the image argument stands for: name.tar or name.tag.tar
ImageArgTarName ==
    IF ImageArgHasTag
    THEN <<ImageArgName[Len(ImageArgName) - 2], ".", ImageArgName[Len(ImageArgName)], ".tar">>
    ELSE <<ImageArgName[Len(ImageArgName)], ".tar">>
\* the destination builder of a download returned a reference
DownloadDestBuilt == opts.cmd = "download" /\ destCalls = 1 /\ destRes.kind = "ok"

AttemptRunning == \E i \in 1..Len(attempts) : attempts[i].outcome = "running"
\* the run is past the deferred calls of execCopy
PastDefers == pc \in {"returned", "done", "exited", "crashed"}

\* C24: once the command context exists, every exit path first lets the last
\* copy attempt return, then cancels the context, then destroys the policy
\* context; the policy context is never destroyed while an attempt runs, and
\* no attempt starts after it was destroyed.
C24_CancelThenDestroy ==
    /\ [](ctx.cancelled => ~AttemptRunning /\ ~InRetryLoop)
    /\ []((policy = "destroyed" /\ ctx.made) => ctx.cancelled)
    /\ [](policy = "destroyed" => ~AttemptRunning /\ ~InRetryLoop)
    /\ []((PastDefers /\ ctx.made) => ctx.cancelled /\ policy = "destroyed")
    /\ [](\A i \in 1..Len(attempts) : attempts[i].policy = "live")
    /\ [][ctx.cancelled' /\ ~ctx.cancelled => policy = "live" /\ policy' = "live"]_vars
    /\ [][ctx.cancelled \/ policy = "destroyed" => attempts' = attempts]_vars

\* two attempts were made, the last one returned, the context was cancelled
\* and the policy context destroyed
C24_Witness ==
    /\ pc = "returned"
    /\ Len(attempts) = 2
    /\ ~AttemptRunning
    /\ ctx.made
    /\ ctx.cancelled
    /\ policy = "destroyed"
    /\ destroyCalls = 1

\* the builders of a push returned
PushSourceBuilt == opts.cmd = "push" /\ srcCalls = 1 /\ srcRes.kind = "ok"
PushDestBuilt == opts.cmd = "push" /\ destCalls = 1 /\ destRes.kind = "ok"

SrcSysReturned == srcSys.kind = "returned"
SrcSysOk == SrcSysReturned /\ srcSys.ok
SrcSysFailed == SrcSysReturned /\ ~srcSys.ok
\* the flag combinations and --creds values the call refuses
RefusedFlags(f) ==
    \/ f.credsOption.present /\ f.noCreds
    \/ f.userName.present /\ f.noCreds
    \/ f.credsOption.present /\ f.userName.present
    \/ f.userName.present # f.password.present
    \/ f.credsOption.present /\ f.credsOption.value = <<>>
    \/ f.credsOption.present /\ f.credsOption.value # <<>> /\ f.credsOption.value[1] = ":"
\* the user name and password a --creds value stands for
CredsPair(v) ==
    CASE v = <<"user", ":", "pass">> -> Auth(<<"user">>, <<"pass">>)
      [] v = <<"user">> -> Auth(<<"user">>, <<>>)
      [] v = <<"user", ":">> -> Auth(<<"user">>, <<>>)
      [] v = <<"user", ":", "pa", ":", "ss">> -> Auth(<<"user">>, <<"pa", ":", "ss">>)
\* the auth config the flags stand for
ExpectedAuth(f) ==
    IF f.noCreds THEN Auth(<<>>, <<>>)
    ELSE IF f.credsOption.present THEN CredsPair(f.credsOption.value)
    ELSE IF f.userName.present THEN Auth(f.userName.value, f.password.value)
    ELSE NoAuth

\* C25: newSystemContext returns an error and no context for creds with
\* no-creds, username with no-creds, creds with username, exactly one of
\* username and password, and a creds value that is empty or has an empty
\* user name; otherwise it returns a context whose auth config is the creds
\* pair (password empty without ':'), else the username/password pair,
\* replaced by the empty anonymous config when no-creds is set.
C25_AuthConfig ==
    SrcSysReturned =>
      IF RefusedFlags(flags.src)
      THEN /\ ~srcSys.ok
           /\ srcSys.err # NoErr
           /\ srcSys.ptr = 0
           /\ heap = <<>>
      ELSE /\ srcSys.ok
           /\ srcSys.err = NoErr
           /\ srcSys.ptr \in 1..Len(heap)
           /\ heap[srcSys.ptr].DockerAuthConfig = ExpectedAuth(flags.src)

\* --creds user: the context carries user with an empty password
C25_Witness ==
    /\ SrcSysOk
    /\ flags.src.credsOption = Given(<<"user">>)
    /\ heap[srcSys.ptr].DockerAuthConfig = Auth(<<"user">>, <<>>)

\* negation of an optional tls-verify flag
SkipOf(flag) == GivenBool(~flag.value)

\* C26: the registry TLS-skip setting is the negation of the per-image
\* tls-verify flag when present, else of the subcommand-wide --tls-verify,
\* else of the global --tls-verify, else unset; the daemon TLS-skip setting
\* is the negation of the per-image flag and false without it.
C26_TLSPrecedence ==
    SrcSysOk =>
      /\ heap[srcSys.ptr].DockerInsecureSkipTLSVerify =
            (IF flags.src.tlsVerify.present THEN SkipOf(flags.src.tlsVerify)
             ELSE IF flags.deprecatedTLSVerify.present THEN SkipOf(flags.deprecatedTLSVerify)
             ELSE IF flags.global.tlsVerify.present THEN SkipOf(flags.global.tlsVerify)
             ELSE AbsentBool)
      /\ heap[srcSys.ptr].DockerDaemonInsecureSkipTLSVerify =
            (flags.src.tlsVerify.present /\ ~flags.src.tlsVerify.value)

\* only the global --tls-verify=false is given: the registry setting is
\* skip, the daemon setting stays false
C26_Witness ==
    /\ SrcSysOk
    /\ ~flags.src.tlsVerify.present
    /\ ~flags.deprecatedTLSVerify.present
    /\ flags.global.tlsVerify = GivenBool(FALSE)
    /\ heap[srcSys.ptr].DockerInsecureSkipTLSVerify = GivenBool(TRUE)
    /\ heap[srcSys.ptr].DockerDaemonInsecureSkipTLSVerify = FALSE

\* both contexts were returned
BothSysOk == SrcSysOk /\ destSys.kind = "returned" /\ destSys.ok
\* the additional tags of the object at an address
TagsAt(h, ptr) == h[ptr].DockerArchiveAdditionalTags

\* C27: every newSystemContext call returns a new object: the source and the
\* destination context are distinct, so addTag changes only the destination
\* context's additional tags, by one tag on success and by nothing when the
\* tag is rejected, and leaves the source context and the option structs as
\* they were.
C27_FreshContexts ==
    /\ [](BothSysOk => /\ srcSys.ptr # destSys.ptr
                        /\ srcSys.ptr \in 1..Len(heap)
                        /\ destSys.ptr \in 1..Len(heap))
    /\ [](BothSysOk => /\ TagsAt(heap, srcSys.ptr) = <<>>
                        /\ Len(TagsAt(heap, destSys.ptr)) = (IF tagged = "ok" THEN 1 ELSE 0))
    /\ [][(destSys'.kind = "returned" /\ destSys.kind = "none" /\ destSys'.ok) =>
              /\ destSys'.ptr \notin 1..Len(heap)
              /\ heap'[srcSys.ptr] = heap[srcSys.ptr]]_vars
    /\ [][tagged' # tagged =>
              /\ flags' = flags
              /\ heap'[srcSys.ptr] = heap[srcSys.ptr]
              /\ Len(heap') = Len(heap)
              /\ IF tagged' = "ok"
                 THEN /\ Len(TagsAt(heap', destSys.ptr)) = Len(TagsAt(heap, destSys.ptr)) + 1
                      /\ [heap'[destSys.ptr] EXCEPT !.DockerArchiveAdditionalTags = <<>>]
                           = [heap[destSys.ptr] EXCEPT !.DockerArchiveAdditionalTags = <<>>]
                 ELSE heap' = heap]_vars

\* addTag accepted custom:v2 on the destination context; the source context
\* has no additional tag
C27_Witness ==
    /\ BothSysOk
    /\ tagged = "ok"
    /\ srcSys.ptr # destSys.ptr
    /\ TagsAt(heap, destSys.ptr) = << <<"custom", ":", "v2">> >>
    /\ TagsAt(heap, srcSys.ptr) = <<>>

====
